---- MODULE Spec2Model ----
(***************************************************************************)
(* A model of ply.py: the PLY header parser (PlyReader.read_header), the   *)
(* decoder construction (PlyProperty.make_reader, PlyElement.make_reader)  *)
(* and the payload decode (PlyReader.read_data, ReaderIterator).           *)
(*                                                                         *)
(* Text is a sequence of one-character strings, the payload a sequence of  *)
(* bytes (0..255).  A Python exception is a record [type, arg].            *)
(***************************************************************************)
EXTENDS Integers, Sequences, FiniteSets, TLC

(***************************************************************************)
(* Python's str primitives, as the header parser uses them.                *)
(***************************************************************************)

\* the characters str.split() treats as separators
Whitespace == {" ", "\t", "\n", "\r", "\f"}

Digits == {"0", "1", "2", "3", "4", "5", "6", "7", "8", "9"}

Letters ==
    {"a", "b", "c", "d", "e", "f", "g", "h", "i", "j", "k", "l", "m",
     "n", "o", "p", "q", "r", "s", "t", "u", "v", "w", "x", "y", "z",
     "A", "B", "C", "D", "E", "F", "G", "H", "I", "J", "K", "L", "M",
     "N", "O", "P", "Q", "R", "S", "T", "U", "V", "W", "X", "Y", "Z"}

DigitValue(c) ==
    CASE c = "0" -> 0 [] c = "1" -> 1 [] c = "2" -> 2 [] c = "3" -> 3
      [] c = "4" -> 4 [] c = "5" -> 5 [] c = "6" -> 6 [] c = "7" -> 7
      [] c = "8" -> 8 [] c = "9" -> 9

\* s[i:] and s[:-1]
Drop(s, n) == SubSeq(s, n + 1, Len(s))

ChopLast(s) == SubSeq(s, 1, Len(s) - 1)

\* the index of the first occurrence of c in s at or after i, 0 when absent
RECURSIVE IndexFrom(_, _, _)
IndexFrom(s, c, i) ==
    IF i > Len(s) THEN 0
    ELSE IF s[i] = c THEN i
    ELSE IndexFrom(s, c, i + 1)

\* file.readline() at position pos of text: the characters up to and
\* including the next newline, or up to the end of the text
readline(text, pos) ==
    LET nl == IndexFrom(text, "\n", pos + 1)
    IN  IF nl = 0 THEN SubSeq(text, pos + 1, Len(text))
        ELSE SubSeq(text, pos + 1, nl)

\* str.partition(" "): (head, sep, tail) around the first blank
partition(l) ==
    LET sp == IndexFrom(l, " ", 1)
    IN  IF sp = 0 THEN << l, << >>, << >> >>
        ELSE << SubSeq(l, 1, sp - 1), << " " >>, Drop(l, sp) >>

\* str.split(): the maximal runs of non-whitespace characters
RECURSIVE SplitFrom(_, _, _, _)
SplitFrom(s, i, cur, acc) ==
    IF i > Len(s) THEN (IF cur = << >> THEN acc ELSE Append(acc, cur))
    ELSE IF s[i] \in Whitespace
         THEN SplitFrom(s, i + 1, << >>,
                        IF cur = << >> THEN acc ELSE Append(acc, cur))
         ELSE SplitFrom(s, i + 1, Append(cur, s[i]), acc)

split(s) == SplitFrom(s, 1, << >>, << >>)

\* str.split('_'): the fields between underscores, empty fields kept
RECURSIVE SplitOnFrom(_, _, _, _, _)
SplitOnFrom(s, sep, i, cur, acc) ==
    IF i > Len(s) THEN Append(acc, cur)
    ELSE IF s[i] = sep THEN SplitOnFrom(s, sep, i + 1, << >>, Append(acc, cur))
    ELSE SplitOnFrom(s, sep, i + 1, Append(cur, s[i]), acc)

split_on(s, sep) == SplitOnFrom(s, sep, 1, << >>, << >>)

AllIn(s, S) == \A i \in 1..Len(s) : s[i] \in S

RECURSIVE DigitsValue(_, _)
DigitsValue(s, acc) ==
    IF s = << >> THEN acc
    ELSE DigitsValue(Tail(s), 10 * acc + DigitValue(Head(s)))

Unsigned(s) == IF s # << >> /\ Head(s) \in {"+", "-"} THEN Tail(s) ELSE s

\* int(s) succeeds on an optional sign followed by one or more digits
IsIntLiteral(s) == Unsigned(s) # << >> /\ AllIn(Unsigned(s), Digits)

int(s) ==
    IF Head(s) = "-" THEN 0 - DigitsValue(Unsigned(s), 0)
    ELSE DigitsValue(Unsigned(s), 0)

\* float(s) succeeds on [sign] digits [. digits] [e [sign] digits], with at
\* least one digit in the mantissa, and on [sign] inf | infinity | nan
IsDecimal(s) ==
    LET dot == IndexFrom(s, ".", 1)
    IN  IF dot = 0 THEN s # << >> /\ AllIn(s, Digits)
        ELSE /\ Len(s) > 1
             /\ AllIn(SubSeq(s, 1, dot - 1), Digits)
             /\ AllIn(Drop(s, dot), Digits)

IsFloatLiteral(s) ==
    LET u == Unsigned(s)
        e == IndexFrom(u, "e", 1)
    IN  \/ u \in { <<"i", "n", "f">>, <<"n", "a", "n">>,
                   <<"i", "n", "f", "i", "n", "i", "t", "y">> }
        \/ e = 0 /\ IsDecimal(u)
        \/ /\ e > 0
           /\ IsDecimal(SubSeq(u, 1, e - 1))
           /\ IsIntLiteral(Drop(u, e))

(***************************************************************************)
(* The words of the PLY header grammar and of the inputs, spelled as       *)
(* character sequences.                                                    *)
(***************************************************************************)
W_ply == <<"p", "l", "y">>
W_PLY == <<"P", "L", "Y">>
W_end_header == <<"e", "n", "d", "_", "h", "e", "a", "d", "e", "r">>
W_comment == <<"c", "o", "m", "m", "e", "n", "t">>
W_format == <<"f", "o", "r", "m", "a", "t">>
W_element == <<"e", "l", "e", "m", "e", "n", "t">>
W_property == <<"p", "r", "o", "p", "e", "r", "t", "y">>
W_list == <<"l", "i", "s", "t">>
W_ascii == <<"a", "s", "c", "i", "i">>
W_binary == <<"b", "i", "n", "a", "r", "y">>
W_little == <<"l", "i", "t", "t", "l", "e">>
W_big == <<"b", "i", "g">>
W_endian == <<"e", "n", "d", "i", "a", "n">>
W_uchar == <<"u", "c", "h", "a", "r">>
W_char == <<"c", "h", "a", "r">>
W_ushort == <<"u", "s", "h", "o", "r", "t">>
W_short == <<"s", "h", "o", "r", "t">>
W_uint == <<"u", "i", "n", "t">>
W_int == <<"i", "n", "t">>
W_float == <<"f", "l", "o", "a", "t">>
W_double == <<"d", "o", "u", "b", "l", "e">>
W_vertex == <<"v", "e", "r", "t", "e", "x">>
W_face == <<"f", "a", "c", "e">>
W_vertex_index == <<"v", "e", "r", "t", "e", "x", "_", "i", "n", "d", "e", "x">>
W_foo == <<"f", "o", "o">>
W_extra == <<"e", "x", "t", "r", "a">>

W_binary_little_endian == W_binary \o <<"_">> \o W_little \o <<"_">> \o W_endian

W_binary_big_endian == W_binary \o <<"_">> \o W_big \o <<"_">> \o W_endian

W_binary_little == W_binary \o <<"_">> \o W_little

\* the keywords of Python 2, which namedtuple refuses as names
Keywords ==
    {<<"a", "n", "d">>,
     <<"a", "s">>,
     <<"a", "s", "s", "e", "r", "t">>,
     <<"b", "r", "e", "a", "k">>,
     <<"c", "l", "a", "s", "s">>,
     <<"c", "o", "n", "t", "i", "n", "u", "e">>,
     <<"d", "e", "f">>,
     <<"d", "e", "l">>,
     <<"e", "l", "i", "f">>,
     <<"e", "l", "s", "e">>,
     <<"e", "x", "c", "e", "p", "t">>,
     <<"e", "x", "e", "c">>,
     <<"f", "i", "n", "a", "l", "l", "y">>,
     <<"f", "o", "r">>,
     <<"f", "r", "o", "m">>,
     <<"g", "l", "o", "b", "a", "l">>,
     <<"i", "f">>,
     <<"i", "m", "p", "o", "r", "t">>,
     <<"i", "n">>,
     <<"i", "s">>,
     <<"l", "a", "m", "b", "d", "a">>,
     <<"n", "o", "t">>,
     <<"o", "r">>,
     <<"p", "a", "s", "s">>,
     <<"p", "r", "i", "n", "t">>,
     <<"r", "a", "i", "s", "e">>,
     <<"r", "e", "t", "u", "r", "n">>,
     <<"t", "r", "y">>,
     <<"w", "h", "i", "l", "e">>,
     <<"w", "i", "t", "h">>,
     <<"y", "i", "e", "l", "d">>}

(***************************************************************************)
(* Exceptions and results.  An operation that may raise yields a record    *)
(* with ok = TRUE and its value, or ok = FALSE and the exception.          *)
(***************************************************************************)
Exc(type, msg) == [type |-> type, msg |-> msg, key |-> << >>]

\* KeyError(key): the exception of a failed dict lookup names the key
KeyError(key) == [type |-> "KeyError", msg |-> "", key |-> key]

NoExc == Exc("none", "")

Raise(e) == [ok |-> FALSE, exc |-> e]

Return(v) == [ok |-> TRUE, val |-> v]

Min(a, b) == IF a < b THEN a ELSE b

\* data[a:b] for 0 <= a: a slice never reaches outside the string
Slice(data, a, b) == SubSeq(data, a + 1, Min(b, Len(data)))

RECURSIVE Reverse(_)
Reverse(s) == IF s = << >> THEN << >> ELSE Append(Reverse(Tail(s)), Head(s))

(***************************************************************************)
(* The struct module, for the formats ply.py builds: a byte order          *)
(* character, an optional repeat count and one format character.           *)
(***************************************************************************)
StructCodes == {"B", "b", "H", "h", "I", "i", "f", "d"}

\* the standard size of a format character under "<" or ">"
StandardSize(code) ==
    CASE code \in {"B", "b"} -> 1
      [] code \in {"H", "h"} -> 2
      [] code \in {"I", "i", "f"} -> 4
      [] code = "d" -> 8

\* the value of a base-256 numeral, most significant byte first
RECURSIVE Horner(_, _)
Horner(be, acc) ==
    IF be = << >> THEN acc ELSE Horner(Tail(be), 256 * acc + Head(be))

\* Python values: an int, a long (an unsigned value of 2^31 or more, kept as
\* its base-256 numeral, most significant byte first) and a float (kept as
\* its IEEE 754 bit pattern, sign byte first)
PyInt(n) == [t |-> "int", v |-> n]

PyLong(be) == [t |-> "long", be |-> be]

PyFloat(be) == [t |-> "float", be |-> be]

\* One value of format character code from the bytes b in byte order order.
UnpackValue(order, code, b) ==
    LET be == IF order = "<" THEN Reverse(b) ELSE b
    IN  CASE code \in {"f", "d"} -> PyFloat(be)
          [] code \in {"b", "h", "i"} ->
                IF Head(be) >= 128
                THEN PyInt(Horner(Tail(be), Head(be) - 256))
                ELSE PyInt(Horner(be, 0))
          [] code \in {"B", "H"} -> PyInt(Horner(be, 0))
          [] code = "I" ->
                IF Head(be) >= 128 THEN PyLong(be) ELSE PyInt(Horner(be, 0))

\* "{count}".format(count = v) is a repeat count struct accepts when v is
\* an integer that is not negative: the text of a negative integer starts
\* with "-" and that of a float holds ".", "e", "inf" or "nan"
IsRepeatCount(v) == v.t = "long" \/ (v.t = "int" /\ v.v >= 0)

\* A struct size: n bytes, or huge (the size of a long repeat count, which
\* is beyond the length of any string here).
Size(n) == [n |-> n, huge |-> FALSE]

HugeSize == [n |-> 0, huge |-> TRUE]

\* struct.calcsize of order, count, code; count is << >> when the format
\* has no repeat count and << v >> when it has the repeat count v
calcsize(order, count, code) ==
    IF code \notin StructCodes
    THEN Raise(Exc("struct.error", "bad char in struct format"))
    ELSE IF count = << >> THEN Return(Size(StandardSize(code)))
    ELSE IF ~IsRepeatCount(count[1])
    THEN Raise(Exc("struct.error", "bad char in struct format"))
    ELSE IF count[1].t = "long" THEN Return(HugeSize)
    ELSE Return(Size(count[1].v * StandardSize(code)))

\* the values of code held by the string s, in the order of the string
UnpackItems(order, code, s) ==
    [i \in 1..(Len(s) \div StandardSize(code)) |->
        UnpackValue(order, code,
                    SubSeq(s, (i - 1) * StandardSize(code) + 1,
                           i * StandardSize(code)))]

\* struct.unpack of a format of size size from the string s: s must be
\* exactly as long as the format's size
RECURSIVE ZeroPadded(_, _)
ZeroPadded(s, n) == IF Len(s) >= n THEN s ELSE ZeroPadded(Append(s, 0), n)

unpack_mutant_pads_short_string(order, code, size, s) ==
    IF size.huge THEN Return(UnpackItems(order, code, s))
    ELSE Return(UnpackItems(order, code, ZeroPadded(s, size.n)))

unpack(order, code, size, s) ==
    IF size.huge \/ Len(s) # size.n
    THEN Raise(Exc("struct.error", "unpack requires a string argument"))
    ELSE Return(UnpackItems(order, code, s))

\* data[offset:offset+size]
SliceOf(data, offset, size) ==
    IF size.huge THEN Slice(data, offset, Len(data))
    ELSE Slice(data, offset, offset + size.n)

(***************************************************************************)
(* PlyProperty: [name, dtype], dtype the type tokens of the property line. *)
(***************************************************************************)
PlyProperty(name, dtype) == [name |-> name, dtype |-> dtype]

IndexError == Exc("IndexError", "list index out of range")

NotImplementedError ==
    Exc("NotImplementedError", "For the moment this module reads binary only.")

\* the least element of a non-empty set of integers
Least(S) == CHOOSE i \in S : \A j \in S : i <= j

\* the first exception a sequence of results holds, in order
FirstRaise(rs) == rs[Least({i \in 1..Len(rs) : ~rs[i].ok})]

AllOk(rs) == \A i \in 1..Len(rs) : rs[i].ok

\* the translation table of _make_binary_reader: the byte orders and the
\* type names share one dict
tr ==
    (W_little :> "<") @@ (W_big :> ">") @@
    (W_uchar :> "B") @@ (W_char :> "b") @@
    (W_ushort :> "H") @@ (W_short :> "h") @@
    (W_uint :> "I") @@ (W_int :> "i") @@
    (W_float :> "f") @@ (W_double :> "d")

\* _make_binary_reader(dtype, endianness, varsize): the reader of one value
\* (with its size, computed as the reader is built) or, with varsize, of
\* count values (its size is computed at each call)
make_binary_reader(dtype, endianness, varsize) ==
    IF dtype \notin DOMAIN tr THEN Raise(KeyError(dtype))
    ELSE IF varsize
    THEN Return([kind |-> "varsize", order |-> tr[endianness], code |-> tr[dtype]])
    ELSE LET size == calcsize(tr[endianness], << >>, tr[dtype])
         IN  IF ~size.ok THEN size
             ELSE Return([kind |-> "scalar", order |-> tr[endianness],
                          code |-> tr[dtype], size |-> size.val])

\* _make_binary_list_reader(stype, dtype, endianness)
make_binary_list_reader(stype, dtype, endianness) ==
    LET size_reader == make_binary_reader(stype, endianness, FALSE)
        list_reader == make_binary_reader(dtype, endianness, TRUE)
    IN  IF ~size_reader.ok THEN size_reader
        ELSE IF ~list_reader.ok THEN list_reader
        ELSE Return([kind |-> "list", size_reader |-> size_reader.val,
                     list_reader |-> list_reader.val])

\* PlyProperty.make_reader(file_format); is_list() reads dtype[0], the list
\* branches read dtype[1] and dtype[2]
make_reader(p, file_format) ==
    LET ff == split_on(file_format, "_")
    IN  IF ff[1] = W_binary /\ Len(ff) < 2 THEN Raise(IndexError)
        ELSE IF ff[1] = W_binary /\ ff[2] \in {W_little, W_big}
        THEN IF Len(p.dtype) = 0 THEN Raise(IndexError)
             ELSE IF p.dtype[1] = W_list
             THEN IF Len(p.dtype) < 3 THEN Raise(IndexError)
                  ELSE make_binary_list_reader(p.dtype[2], p.dtype[3], ff[2])
             ELSE make_binary_reader(p.dtype[1], ff[2], FALSE)
        ELSE IF ff[1] = W_ascii
        THEN IF Len(p.dtype) = 0 THEN Raise(IndexError)
             ELSE IF p.dtype[1] = W_list /\ Len(p.dtype) < 3 THEN Raise(IndexError)
             ELSE Raise(NotImplementedError)
        ELSE Raise(Exc("RuntimeError", "Invalid file format specifier"))

\* the reader of a scalar property, applied to (data, offset)
scalar_reader(r, data, offset) ==
    LET u == unpack(r.order, r.code, r.size, SliceOf(data, offset, r.size))
    IN  IF ~u.ok THEN u
        ELSE Return([val |-> u.val[1], offset |-> offset + r.size.n])

\* the varsize reader, applied to (data, offset, count)
varsize_reader(r, data, offset, count) ==
    LET size == calcsize(r.order, << count >>, r.code)
        u == unpack(r.order, r.code, size.val, SliceOf(data, offset, size.val))
    IN  IF ~size.ok THEN size
        ELSE IF ~u.ok THEN u
        ELSE Return([val |-> u.val, offset |-> offset + size.val.n])

\* the reader of a list property, applied to (data, offset): the items
\* are read from the offset the size reader returned
list_reader_mutant_items_at_count(r, data, offset) ==
    LET count == scalar_reader(r.size_reader, data, offset)
    IN  IF ~count.ok THEN count
        ELSE varsize_reader(r.list_reader, data, offset, count.val.val)

list_reader(r, data, offset) ==
    LET count == scalar_reader(r.size_reader, data, offset)
    IN  IF ~count.ok THEN count
        ELSE varsize_reader(r.list_reader, data, count.val.offset, count.val.val)

\* a property's reader r applied to (data, offset): [val, offset] or raises
apply_reader(r, data, offset) ==
    IF r.kind = "list" THEN list_reader(r, data, offset)
    ELSE scalar_reader(r, data, offset)

(***************************************************************************)
(* PlyElement: [name, count, properties].                                  *)
(***************************************************************************)
PlyElement(name, count, properties) ==
    [name |-> name, count |-> count, properties |-> properties]

ValueError(msg) == Exc("ValueError", msg)

\* collections.namedtuple(typename, field_names): the names it refuses
namedtuple(typename, field_names) ==
    LET names == << typename >> \o field_names
    IN  IF \E i \in 1..Len(names) : ~AllIn(names[i], Letters \cup Digits \cup {"_"})
        THEN Raise(ValueError("names can only contain alphanumeric characters and underscores"))
        ELSE IF \E i \in 1..Len(names) : names[i] \in Keywords
        THEN Raise(ValueError("names cannot be a keyword"))
        ELSE IF \E i \in 1..Len(names) : Head(names[i]) \in Digits
        THEN Raise(ValueError("names cannot start with a number"))
        ELSE IF \E i \in 1..Len(field_names) : Head(field_names[i]) = "_"
        THEN Raise(ValueError("field names cannot start with an underscore"))
        ELSE IF \E i, j \in 1..Len(field_names) : i < j /\ field_names[i] = field_names[j]
        THEN Raise(ValueError("encountered duplicate field name"))
        ELSE Return([typename |-> typename, fields |-> field_names])

\* an instance of a namedtuple type: the values, by position, under the
\* type's field names
new_tuple(fields, values) == [fields |-> fields, values |-> values]

\* None
None == [none |-> TRUE]

\* PlyElement.make_reader(file_format): the property readers in declared
\* order, then the record type; the element reader repeats read_item n
\* times, n = self.count
element_make_reader(e, file_format) ==
    LET readers == [i \in 1..Len(e.properties) |->
                      make_reader(e.properties[i], file_format)]
        field_names == [i \in 1..Len(e.properties) |-> e.properties[i].name]
        Element == namedtuple(e.name, field_names)
    IN  IF ~AllOk(readers) THEN FirstRaise(readers)
        ELSE IF ~Element.ok THEN Element
        ELSE Return([name |-> e.name, fields |-> field_names,
                     readers |-> [i \in 1..Len(readers) |-> readers[i].val],
                     n |-> e.count])

(***************************************************************************)
(* PlyReader: the header.                                                  *)
(***************************************************************************)

\* the test of _parse_header_elements on the line in an element position:
\* it raises when the keyword is not "element" and there are two arguments
invalid_element_line(line) == line[1] # W_element /\ Len(line[2]) = 2

\* how many lines at the front of lines have the keyword "property"
RECURSIVE PropertyRun(_)
PropertyRun(lines) ==
    IF lines # << >> /\ Head(lines)[1] = W_property
    THEN 1 + PropertyRun(Tail(lines))
    ELSE 0

\* _parse_header_elements(lines), lines the (keyword, arguments) pairs after
\* the format line: the elements collected so far are acc
RECURSIVE parse_header_elements(_, _)
parse_header_elements(lines, acc) ==
    IF lines = << >> THEN Return(acc)
    ELSE LET line == Head(lines)
             k == PropertyRun(Tail(lines))
             p_lines == [i \in 1..k |-> Tail(lines)[i][2]]
             ptys == [i \in 1..k |->
                        PlyProperty(p_lines[i][Len(p_lines[i])], ChopLast(p_lines[i]))]
         IN  IF invalid_element_line(line)
             THEN Raise(Exc("RuntimeError", "Invalid .ply file: expected keyword 'element' with two arguments."))
             ELSE IF \E i \in 1..k : p_lines[i] = << >> THEN Raise(IndexError)
             ELSE IF Len(line[2]) < 2 THEN Raise(IndexError)
             ELSE IF ~IsIntLiteral(line[2][2])
             THEN Raise(ValueError("invalid literal for int()"))
             ELSE parse_header_elements(
                      Drop(Tail(lines), k),
                      Append(acc, PlyElement(line[2][1], int(line[2][2]), ptys)))

\* str(e) of PlyElement.__str__ raises when a property has no type token:
\* PlyProperty.__str__ calls is_list(), which reads dtype[0]
str_raises(e) == \E i \in 1..Len(e.properties) : e.properties[i].dtype = << >>

\* the lines of the header that are not comments, as (keyword, arguments)
RECURSIVE other_lines_of(_)
other_lines_of(all_lines) ==
    IF all_lines = << >> THEN << >>
    ELSE LET l == partition(Head(all_lines))
         IN  IF l[1] = W_comment THEN other_lines_of(Tail(all_lines))
             ELSE << << l[1], split(l[3]) >> >> \o other_lines_of(Tail(all_lines))

\* read_header from "# read other lines" on, given the lines read: the
\* exception raised, if any, and the fields of the reader as it leaves them
\* (file_format is assigned before the version is parsed)
parse_header(all_lines, verbose) ==
    LET other_lines == other_lines_of(all_lines)
        fmt == Head(other_lines)
        elements == parse_header_elements(Tail(other_lines), << >>)
        Fail(e, ff) == [ok |-> FALSE, exc |-> e, file_format |-> ff, elements |-> << >>]
    IN  IF other_lines = << >>
        THEN Fail(Exc("IndexError", "pop from empty list"), << >>)
        ELSE IF fmt[1] # W_format
        THEN Fail(Exc("RuntimeError", "The first non-comment line should specify a format."), << >>)
        ELSE IF Len(fmt[2]) < 1 THEN Fail(IndexError, << >>)
        ELSE IF Len(fmt[2]) < 2 THEN Fail(IndexError, fmt[2][1])
        ELSE IF ~IsFloatLiteral(fmt[2][2])
        THEN Fail(ValueError("could not convert string to float"), fmt[2][1])
        ELSE IF ~elements.ok THEN Fail(elements.exc, fmt[2][1])
        ELSE IF verbose /\ \E i \in 1..Len(elements.val) : str_raises(elements.val[i])
        THEN [ok |-> FALSE, exc |-> IndexError, file_format |-> fmt[2][1],
              elements |-> elements.val]
        ELSE [ok |-> TRUE, exc |-> NoExc, file_format |-> fmt[2][1],
              elements |-> elements.val]

(***************************************************************************)
(* The inputs: header texts and payloads.                                  *)
(***************************************************************************)
RECURSIVE Join(_)
Join(tokens) ==
    IF tokens = << >> THEN << >>
    ELSE IF Len(tokens) = 1 THEN Head(tokens)
    ELSE Head(tokens) \o <<" ">> \o Join(Tail(tokens))

Line(tokens) == Join(tokens) \o <<"\n">>

RECURSIVE Cat(_)
Cat(parts) == IF parts = << >> THEN << >> ELSE Head(parts) \o Cat(Tail(parts))

V10 == <<"1", ".", "0">>

Magic == Line(<< W_ply >>)

EndHeader == Line(<< W_end_header >>)

FormatLine(name) == Line(<< W_format, name, V10 >>)

ElementLine(name, count) == Line(<< W_element, name, count >>)

PropertyLine(type, name) == Line(<< W_property, type, name >>)

PropertyListLine(ctype, itype, name) == Line(<< W_property, W_list, ctype, itype, name >>)

LE == FormatLine(W_binary_little_endian)

BE == FormatLine(W_binary_big_endian)

Header(lines) == Magic \o Cat(lines) \o EndHeader

\* the spec's end-to-end scenarios A and B
F_ScenarioA ==
    Header(<< LE, ElementLine(W_vertex, <<"2">>), PropertyLine(W_float, <<"x">>),
              PropertyLine(W_float, <<"y">>), PropertyLine(W_float, <<"z">>) >>)

F_ScenarioB ==
    Header(<< LE, ElementLine(W_face, <<"1">>),
              PropertyListLine(W_uchar, W_int, W_vertex_index) >>)

F_Mixed ==
    Header(<< LE, ElementLine(W_vertex, <<"2">>), PropertyLine(W_uchar, <<"x">>),
              PropertyLine(W_char, <<"y">>) >>)

F_TwoElements ==
    Header(<< BE, ElementLine(W_vertex, <<"1">>), PropertyLine(W_uchar, <<"x">>),
              ElementLine(W_face, <<"1">>),
              PropertyListLine(W_uchar, W_uchar, W_vertex_index) >>)

F_Lists ==
    Header(<< LE, ElementLine(W_face, <<"2">>),
              PropertyListLine(W_uchar, W_char, W_vertex_index) >>)

F_EmptyElement ==
    Header(<< LE, ElementLine(W_vertex, <<"0">>), PropertyLine(W_double, <<"x">>),
              ElementLine(W_face, <<"1">>), PropertyLine(W_short, <<"y">>) >>)

F_NoProperties ==
    Header(<< LE, ElementLine(W_vertex, <<"2">>),
              ElementLine(W_face, <<"1">>), PropertyLine(W_ushort, <<"x">>) >>)

F_Int == Header(<< BE, ElementLine(W_vertex, <<"1">>), PropertyLine(W_int, <<"x">>) >>)

F_Uint == Header(<< LE, ElementLine(W_vertex, <<"1">>), PropertyLine(W_uint, <<"x">>) >>)

F_Double == Header(<< LE, ElementLine(W_vertex, <<"1">>), PropertyLine(W_double, <<"x">>) >>)

F_ListShortCount ==
    Header(<< BE, ElementLine(W_face, <<"1">>),
              PropertyListLine(W_short, W_uchar, W_vertex_index) >>)

F_ListFloatCount ==
    Header(<< LE, ElementLine(W_face, <<"1">>),
              PropertyListLine(W_float, W_uchar, W_vertex_index) >>)

F_ListUintCount ==
    Header(<< LE, ElementLine(W_face, <<"1">>),
              PropertyListLine(W_uint, W_uchar, W_vertex_index) >>)

F_Comments ==
    Header(<< Line(<< W_comment, W_foo >>), LE, ElementLine(W_vertex, <<"1">>),
              Line(<< W_comment, W_element, W_face, <<"1">> >>),
              PropertyLine(W_ushort, <<"x">>) >>)

F_Ascii ==
    Header(<< FormatLine(W_ascii), ElementLine(W_vertex, <<"2">>),
              PropertyLine(W_float, <<"x">>) >>)

F_AsciiNoProperties == Header(<< FormatLine(W_ascii), ElementLine(W_vertex, <<"2">>) >>)

F_AsciiNoElements == Header(<< FormatLine(W_ascii) >>)

F_AsciiUnknownType ==
    Header(<< FormatLine(W_ascii), ElementLine(W_vertex, <<"1">>), PropertyLine(W_foo, <<"x">>) >>)

F_UnknownFormat == Header(<< FormatLine(W_foo) >>)

F_UnknownFormatProperty ==
    Header(<< FormatLine(W_foo), ElementLine(W_vertex, <<"1">>), PropertyLine(W_uchar, <<"x">>) >>)

F_BinaryLittle ==
    Header(<< FormatLine(W_binary_little), ElementLine(W_vertex, <<"1">>),
              PropertyLine(W_uchar, <<"x">>) >>)

F_Binary ==
    Header(<< FormatLine(W_binary), ElementLine(W_vertex, <<"1">>),
              PropertyLine(W_uchar, <<"x">>) >>)

F_UpperMagic ==
    Line(<< W_PLY >>) \o LE \o ElementLine(W_vertex, <<"1">>)
        \o PropertyLine(W_uchar, <<"x">>) \o EndHeader

F_MagicNoNewline == W_ply

F_MagicCRLF == W_ply \o <<"\r", "\n">> \o LE \o EndHeader

F_Empty == << >>

F_NoFormat == Header(<< ElementLine(W_vertex, <<"1">>), PropertyLine(W_uchar, <<"x">>) >>)

F_OnlyComments == Header(<< Line(<< W_comment, W_foo >>) >>)

F_FormatNoVersion == Header(<< Line(<< W_format, W_ascii >>) >>)

F_FormatBadVersion == Header(<< Line(<< W_format, W_ascii, W_foo >>) >>)

F_ElementExtraArg ==
    Header(<< LE, Line(<< W_element, W_vertex, <<"2">>, W_extra >>),
              PropertyLine(W_uchar, <<"x">>) >>)

F_WrongKeywordThreeArgs ==
    Header(<< LE, Line(<< W_foo, W_vertex, <<"1">>, W_extra >>),
              PropertyLine(W_uchar, <<"x">>) >>)

F_WrongKeywordTwoArgs ==
    Header(<< LE, Line(<< W_foo, W_vertex, <<"1">> >>), PropertyLine(W_uchar, <<"x">>) >>)

F_ElementOneArg == Header(<< LE, Line(<< W_element, W_vertex >>) >>)

F_ElementBadCount == Header(<< LE, ElementLine(W_vertex, W_foo) >>)

F_PropertyFirst ==
    Header(<< LE, PropertyLine(W_uchar, <<"x">>), ElementLine(W_vertex, <<"1">>) >>)

F_SecondElementInvalid ==
    Header(<< LE, ElementLine(W_vertex, <<"1">>), PropertyLine(W_uchar, <<"x">>),
              Line(<< W_foo, W_face, <<"1">> >>) >>)

F_UnknownType ==
    Header(<< LE, ElementLine(W_vertex, <<"1">>), PropertyLine(W_foo, <<"x">>) >>)

F_TypeLittle ==
    Header(<< LE, ElementLine(W_vertex, <<"1">>), PropertyLine(W_little, <<"x">>) >>)

F_ListItemBig ==
    Header(<< LE, ElementLine(W_vertex, <<"1">>), PropertyLine(W_uchar, <<"x">>),
              PropertyListLine(W_uchar, W_big, <<"y">>) >>)

F_ListCountLittle ==
    Header(<< LE, ElementLine(W_vertex, <<"1">>),
              PropertyListLine(W_little, W_uchar, <<"x">>) >>)

F_ListUnknownItem ==
    Header(<< LE, ElementLine(W_vertex, <<"1">>),
              PropertyListLine(W_uchar, W_foo, <<"x">>) >>)

F_NoEndHeader == Magic \o LE \o ElementLine(W_vertex, <<"1">>)

F_EndHeaderNoNewline == Magic \o LE \o W_end_header

F_DuplicateFields ==
    Header(<< LE, ElementLine(W_vertex, <<"1">>), PropertyLine(W_uchar, <<"x">>),
              PropertyLine(W_uchar, <<"x">>) >>)

F_DuplicateElements ==
    Header(<< LE, ElementLine(W_vertex, <<"0">>), ElementLine(W_vertex, <<"0">>) >>)

F_PropertyNoType ==
    Header(<< LE, ElementLine(W_vertex, <<"1">>), Line(<< W_property, <<"x">> >>) >>)

F_PropertyBare ==
    Header(<< LE, ElementLine(W_vertex, <<"1">>), Line(<< W_property >>) >>)

F_ListTooShort ==
    Header(<< LE, ElementLine(W_vertex, <<"1">>),
              Line(<< W_property, W_list, W_uchar, <<"x">> >>) >>)

\* comments before the format line, between two properties, after the last
\* property, between two elements, and a comment line of the keyword alone
F_CommentsEverywhere ==
    Header(<< Line(<< W_comment, W_format, W_ascii, V10 >>), BE,
              ElementLine(W_vertex, <<"1">>), PropertyLine(W_uchar, <<"x">>),
              Line(<< W_comment, W_property, W_uchar, <<"z">> >>),
              PropertyListLine(W_uchar, W_char, <<"y">>),
              Line(<< W_comment >>),
              ElementLine(W_face, <<"0">>),
              Line(<< W_comment, W_foo >>) >>)

\* a comment whose keyword is followed by a tab: "comment\tfile has 2 faces"
F_CommentTab ==
    Header(<< LE, ElementLine(W_vertex, <<"1">>),
              W_comment \o <<"\t">> \o Line(<< <<"f", "i", "l", "e">>, <<"h", "a", "s">>,
                                              <<"2">>, <<"f", "a", "c", "e", "s">> >>),
              PropertyLine(W_uchar, <<"x">>) >>)

\* an element line whose keyword is followed by a tab
F_ElementTab ==
    Header(<< LE, W_element \o <<"\t">> \o Line(<< W_vertex, <<"1">> >>),
              PropertyLine(W_uchar, <<"x">>) >>)

Files ==
    << F_CommentsEverywhere, F_CommentTab, F_ElementTab,
       F_ScenarioA, F_ScenarioB, F_Mixed, F_TwoElements, F_Lists,
       F_EmptyElement, F_NoProperties, F_Int, F_Uint, F_Double,
       F_ListShortCount, F_ListFloatCount, F_ListUintCount, F_Comments,
       F_Ascii, F_AsciiNoProperties, F_AsciiNoElements, F_AsciiUnknownType,
       F_UnknownFormat, F_UnknownFormatProperty, F_BinaryLittle, F_Binary,
       F_UpperMagic, F_MagicNoNewline, F_MagicCRLF, F_Empty, F_NoFormat,
       F_OnlyComments, F_FormatNoVersion, F_FormatBadVersion,
       F_ElementExtraArg, F_WrongKeywordThreeArgs, F_WrongKeywordTwoArgs,
       F_ElementOneArg, F_ElementBadCount, F_PropertyFirst,
       F_SecondElementInvalid, F_UnknownType, F_TypeLittle, F_ListItemBig,
       F_ListCountLittle, F_ListUnknownItem, F_NoEndHeader,
       F_EndHeaderNoNewline, F_DuplicateFields, F_DuplicateElements,
       F_PropertyNoType, F_PropertyBare, F_ListTooShort >>

\* the longest payload drawn from Bytes
MaxPayload == 4

Bytes == {0, 2, 255}

RECURSIVE SeqsUpTo(_, _)
SeqsUpTo(S, n) ==
    IF n = 0 THEN {<< >>}
    ELSE LET shorter == SeqsUpTo(S, n - 1)
         IN  shorter \cup {Append(s, b) : s \in {t \in shorter : Len(t) = n - 1}, b \in S}

\* the payloads of the spec's scenarios A (two little-endian float32
\* triples) and B (count 3, then the int32 values 0, 1, 2), and one double
PayloadA ==
    << 0, 0, 128, 63,  0, 0, 0, 64,  0, 0, 64, 64,
       0, 0, 128, 64,  0, 0, 160, 64,  0, 0, 192, 64 >>

PayloadB == << 3, 0, 0, 0, 0, 1, 0, 0, 0, 2, 0, 0, 0 >>

PayloadDouble == << 0, 0, 0, 0, 0, 0, 240, 63 >>

Payloads ==
    SeqsUpTo(Bytes, MaxPayload)
        \cup {PayloadA, ChopLast(PayloadA), PayloadB, ChopLast(PayloadB),
              PayloadDouble, ChopLast(PayloadDouble)}

(***************************************************************************)
(* The state: one PlyReader, from the call of its constructor on.          *)
(***************************************************************************)
VARIABLES
    f_arg,        \* the constructor's argument f: "path", "file" or "other"
    verbose,      \* the constructor's argument verbose
    file,         \* the input: the index in Files of the text f names
    consumed,     \* whether the payload that follows the header was read
    handle,       \* the file handle self.f: "none", "open" or "closed"
    owner,        \* who opened the handle: "none", "caller" or "reader"
    pos,          \* the number of characters of the text read so far
    pc,           \* where the reader is
    exc,          \* the exception of the last call that raised
    all_lines,    \* read_header: the lines yielded by _read_header_lines
    eof_reads,    \* the number of readline() calls made at the end of input
    file_format,  \* self.file_format, << >> before it is assigned
    elements,     \* self.elements, << >> before it is assigned
    calls,        \* the number of read_data calls made
    outcome,      \* of the last read_data call: "none", "returned", "raised"
    result,       \* the value the last read_data call returned
    readers,      \* read_data: the element readers
    data,         \* read_data: the string f.read() returned
    it_doc,       \* the ReaderIterator of read_data over the element readers
    it_elem,      \* the ReaderIterator of an element reader over read_item
    it_item,      \* the ReaderIterator of read_item over the property readers
    item,         \* the values read_item's iterator has produced
    items,        \* the records the element reader's iterator has produced
    doc           \* the lists read_data's iterator has produced

vars ==
    << f_arg, verbose, file, consumed, handle, owner, pos, pc, exc, all_lines,
       eof_reads, file_format, elements, calls, outcome, result, readers,
       data, it_doc, it_elem, it_item, item, items, doc >>

header_vars == << all_lines, eof_reads, file_format, elements >>

input_vars == << f_arg, verbose, file >>

call_vars == << calls, outcome, result >>

decode_vars == << readers, data, it_doc, it_elem, it_item, item, items, doc >>

\* the readline() calls _read_header_lines may make at the end of the input
MaxEofReads == 2

\* the read_data calls made on one reader
MaxCalls == 2

text == Files[file]

\* ReaderIterator(readers, data, offset): next is the index of the reader
\* that readers.next() yields, left the number of repeats left
ReaderIterator(next, left, offset) == [next |-> next, left |-> left, offset |-> offset]

NoIterator == ReaderIterator(0, 0, 0)

Init ==
    /\ f_arg \in {"path", "file", "other"}
    /\ verbose \in BOOLEAN
    /\ file \in 1..Len(Files)
    /\ consumed = FALSE
    /\ handle = IF f_arg = "file" THEN "open" ELSE "none"
    /\ owner = IF f_arg = "file" THEN "caller" ELSE "none"
    /\ pos = 0
    /\ pc = "new"
    /\ exc = NoExc
    /\ all_lines = << >>
    /\ eof_reads = 0
    /\ file_format = << >>
    /\ elements = << >>
    /\ calls = 0
    /\ outcome = "none"
    /\ result = None
    /\ readers = << >>
    /\ data = << >>
    /\ it_doc = NoIterator
    /\ it_elem = NoIterator
    /\ it_item = NoIterator
    /\ item = << >>
    /\ items = << >>
    /\ doc = << >>

(***************************************************************************)
(* PlyReader.__init__ and read_header.                                     *)
(***************************************************************************)

\* __init__ with a path: open(f, 'rb') succeeds and the reader owns the handle
init_open ==
    /\ pc = "new" /\ f_arg = "path"
    /\ handle' = "open" /\ owner' = "reader"
    /\ pc' = "magic"
    /\ UNCHANGED << input_vars, consumed, pos, exc, header_vars, call_vars, decode_vars >>

\* __init__ with a path: open(f, 'rb') raises
init_open_fails ==
    /\ pc = "new" /\ f_arg = "path"
    /\ exc' = Exc("IOError", "No such file or directory")
    /\ pc' = "init_failed"
    /\ UNCHANGED << input_vars, consumed, handle, owner, pos, header_vars, call_vars, decode_vars >>

\* __init__ with a file: the caller's handle is kept
init_file ==
    /\ pc = "new" /\ f_arg = "file"
    /\ pc' = "magic"
    /\ UNCHANGED << input_vars, consumed, handle, owner, pos, exc, header_vars, call_vars, decode_vars >>

\* __init__ with anything else
init_type_error ==
    /\ pc = "new" /\ f_arg = "other"
    /\ exc' = Exc("TypeError", "PlyReader accepts only string or file argument.")
    /\ pc' = "init_failed"
    /\ UNCHANGED << input_vars, consumed, handle, owner, pos, header_vars, call_vars, decode_vars >>

\* the test of read_header on the first line
is_magic_mutant_ignores_case(first_line) ==
    first_line \in {W_ply \o <<"\n">>, W_PLY \o <<"\n">>}

is_magic(first_line) == first_line = W_ply \o <<"\n">>

\* read_header: the first line
read_magic ==
    /\ pc = "magic"
    /\ LET first_line == readline(text, pos)
       IN  /\ pos' = pos + Len(first_line)
           /\ IF is_magic(first_line)
              THEN pc' = "lines" /\ exc' = exc
              ELSE /\ pc' = "init_failed"
                   /\ exc' = Exc("RuntimeError", "This is not a valid .ply file.")
    /\ UNCHANGED << input_vars, consumed, handle, owner, header_vars, call_vars, decode_vars >>

\* the test of _read_header_lines on a line, its last character cut
is_end_header(l) == l = W_end_header

\* _read_header_lines: one turn of its loop.  At the end of the input
\* readline() returns the empty string, which is yielded like any line.
read_header_line ==
    /\ pc = "lines"
    /\ pos = Len(text) => eof_reads < MaxEofReads
    /\ LET l == ChopLast(readline(text, pos))
       IN  /\ pos' = pos + Len(readline(text, pos))
           /\ eof_reads' = IF pos = Len(text) THEN eof_reads + 1 ELSE eof_reads
           /\ IF is_end_header(l)
              THEN pc' = "parse" /\ all_lines' = all_lines
              ELSE pc' = "lines" /\ all_lines' = Append(all_lines, l)
    /\ UNCHANGED << input_vars, consumed, handle, owner, exc, file_format, elements,
                    call_vars, decode_vars >>

\* read_header: the rest, and the return of __init__
read_header ==
    /\ pc = "parse"
    /\ LET h == parse_header(all_lines, verbose)
       IN  /\ file_format' = h.file_format
           /\ elements' = h.elements
           /\ exc' = IF h.ok THEN exc ELSE h.exc
           /\ pc' = IF h.ok THEN "ready" ELSE "init_failed"
    /\ UNCHANGED << input_vars, consumed, handle, owner, pos, all_lines, eof_reads,
                    call_vars, decode_vars >>

(***************************************************************************)
(* PlyReader.read_data.                                                    *)
(***************************************************************************)
W_PLY_name == W_PLY

\* read_data up to the call of f.read(): the element readers, in declared
\* order, and the document type
make_readers(elems, ff) ==
    LET rs == [i \in 1..Len(elems) |-> element_make_reader(elems[i], ff)]
        field_names == [i \in 1..Len(elems) |-> elems[i].name]
        PLY == namedtuple(W_PLY_name, field_names)
    IN  IF ~AllOk(rs) THEN FirstRaise(rs)
        ELSE IF ~PLY.ok THEN PLY
        ELSE Return([i \in 1..Len(rs) |-> rs[i].val])

\* a call of read_data raises e
raised(e) == exc' = e /\ outcome' = "raised" /\ pc' = "ready"

\* read_data is called: the readers are built
read_data ==
    /\ pc = "ready" /\ calls < MaxCalls
    /\ calls' = calls + 1
    /\ result' = None
    /\ data' = << >> /\ doc' = << >> /\ items' = << >> /\ item' = << >>
    /\ it_doc' = NoIterator /\ it_elem' = NoIterator /\ it_item' = NoIterator
    /\ LET rs == make_readers(elements, file_format)
       IN  IF rs.ok
           THEN readers' = rs.val /\ pc' = "read" /\ outcome' = "none" /\ exc' = exc
           ELSE readers' = << >> /\ raised(rs.exc)
    /\ UNCHANGED << input_vars, consumed, handle, owner, pos, header_vars >>

\* data = self.f.read(): everything after the header, once; the iterator
\* over the element readers starts at offset 0
read_file ==
    /\ pc = "read"
    /\ IF consumed THEN data' = << >> ELSE data' \in Payloads
    /\ consumed' = TRUE
    /\ it_doc' = ReaderIterator(1, 0, 0)
    /\ pc' = "doc"
    /\ UNCHANGED << input_vars, handle, owner, pos, exc, header_vars, call_vars,
                    readers, it_elem, it_item, item, items, doc >>

\* itertools.repeat(read_item, n) of the element reader r: n = r.n repeats
repeat(r) == r.n

\* ReaderIterator.next of read_data: the next element reader is called with
\* (data, offset), and starts its own iterator over n repeats of read_item
doc_next ==
    /\ pc = "doc" /\ it_doc.next <= Len(readers)
    /\ it_elem' = ReaderIterator(0, repeat(readers[it_doc.next]), it_doc.offset)
    /\ it_item' = NoIterator
    /\ items' = << >>
    /\ pc' = "elem"
    /\ UNCHANGED << input_vars, consumed, handle, owner, pos, exc, header_vars,
                    call_vars, readers, data, it_doc, item, doc >>

\* read_data returns PLY(*iterator) when the element readers are exhausted
doc_end ==
    /\ pc = "doc" /\ it_doc.next > Len(readers)
    /\ result' = new_tuple([i \in 1..Len(readers) |-> readers[i].name], doc)
    /\ outcome' = "returned"
    /\ pc' = "ready"
    /\ UNCHANGED << input_vars, consumed, handle, owner, pos, exc, header_vars,
                    calls, decode_vars >>

\* the iterator read_item starts when called with offset: a fresh
\* iter(readers), whatever the iterator prev of the last call came to
read_item_mutant_shared_iter(prev, offset) ==
    ReaderIterator(IF prev = NoIterator THEN 1 ELSE prev.next, 0, offset)

read_item_iterator(prev, offset) == ReaderIterator(1, 0, offset)

\* ReaderIterator.next of the element reader: read_item is called with
\* (data, offset), and starts a fresh iterator over the property readers
elem_next ==
    /\ pc = "elem" /\ it_elem.left > 0
    /\ it_item' = read_item_iterator(it_item, it_elem.offset)
    /\ item' = << >>
    /\ pc' = "item"
    /\ UNCHANGED << input_vars, consumed, handle, owner, pos, exc, header_vars,
                    call_vars, readers, data, it_doc, it_elem, items, doc >>

\* the offset an element reader called with offset returns: that of its
\* iterator i
reader_mutant_returns_start(offset, i) == offset

reader_return_offset(offset, i) == i.offset

\* the element reader returns (list(i), i.offset) to the iterator of
\* read_data, which keeps the offset
elem_end ==
    /\ pc = "elem" /\ it_elem.left <= 0
    /\ doc' = Append(doc, items)
    /\ it_doc' = ReaderIterator(it_doc.next + 1, 0, reader_return_offset(it_doc.offset, it_elem))
    /\ pc' = "doc"
    /\ UNCHANGED << input_vars, consumed, handle, owner, pos, exc, header_vars,
                    call_vars, readers, data, it_elem, it_item, item, items >>

\* the property readers of the element being read
item_readers == readers[it_doc.next].readers

\* ReaderIterator.next of read_item: the next property reader is applied to
\* (data, offset); its value is kept with the new offset, or it raises
item_next ==
    /\ pc = "item" /\ it_item.next <= Len(item_readers)
    /\ LET r == apply_reader(item_readers[it_item.next], data, it_item.offset)
       IN  IF r.ok
           THEN /\ item' = Append(item, r.val.val)
                /\ it_item' = ReaderIterator(it_item.next + 1, 0, r.val.offset)
                /\ UNCHANGED << pc, exc, outcome >>
           ELSE /\ raised(r.exc)
                /\ UNCHANGED << item, it_item >>
    /\ UNCHANGED << input_vars, consumed, handle, owner, pos, header_vars,
                    calls, result, readers, data, it_doc, it_elem, items, doc >>

\* the offset read_item called with offset returns: that of its iterator i
read_item_return_offset(offset, i) == i.offset

\* read_item returns (Element(*i), i.offset) to the iterator of the element
\* reader, which keeps the offset
item_end ==
    /\ pc = "item" /\ it_item.next > Len(item_readers)
    /\ items' = Append(items, new_tuple(readers[it_doc.next].fields, item))
    /\ it_elem' = ReaderIterator(0, it_elem.left - 1, read_item_return_offset(it_elem.offset, it_item))
    /\ pc' = "elem"
    /\ UNCHANGED << input_vars, consumed, handle, owner, pos, exc, header_vars,
                    call_vars, readers, data, it_doc, it_item, item, doc >>

Next ==
    \/ init_open
    \/ init_open_fails
    \/ init_file
    \/ init_type_error
    \/ read_magic
    \/ read_header_line
    \/ read_header
    \/ read_data
    \/ read_file
    \/ doc_next
    \/ doc_end
    \/ elem_next
    \/ elem_end
    \/ item_next
    \/ item_end

Spec == Init /\ [][Next]_vars

(***************************************************************************)
(* The format as the specification describes it: the eight scalar types    *)
(* with their widths, the well-formed schemas, and the number of bytes a   *)
(* schema asks of a payload.  None of this is used by the actions above.   *)
(***************************************************************************)
ScalarTypes ==
    {W_uchar, W_char, W_ushort, W_short, W_uint, W_int, W_float, W_double}

IntegerTypes == {W_uchar, W_char, W_ushort, W_short, W_uint, W_int}

SignedTypes == {W_char, W_short, W_int}

FormatTags == {W_ascii, W_binary_little_endian, W_binary_big_endian}

width_of(type) ==
    CASE type \in {W_uchar, W_char} -> 1
      [] type \in {W_ushort, W_short} -> 2
      [] type \in {W_uint, W_int, W_float} -> 4
      [] type = W_double -> 8

IsScalarProperty(p) == Len(p.dtype) = 1 /\ p.dtype[1] \in ScalarTypes

IsListProperty(p) ==
    /\ Len(p.dtype) = 3 /\ p.dtype[1] = W_list
    /\ p.dtype[2] \in IntegerTypes /\ p.dtype[3] \in ScalarTypes

\* a well-formed binary schema: a binary format tag, counts that are not
\* negative, scalar and list properties over the eight types, the count of
\* a list of an integer type
WellFormedBinary(ff, elems) ==
    /\ ff \in {W_binary_little_endian, W_binary_big_endian}
    /\ \A i \in 1..Len(elems) :
          /\ elems[i].count >= 0
          /\ \A j \in 1..Len(elems[i].properties) :
                \/ IsScalarProperty(elems[i].properties[j])
                \/ IsListProperty(elems[i].properties[j])

\* the byte of weight 256^k of the w-byte integer at offset off of d
ByteOfWeight(fmt, d, off, w, k) ==
    IF fmt = W_binary_little_endian THEN d[off + 1 + k] ELSE d[off + w - k]

RECURSIVE SumOfBytes(_, _, _, _, _)
SumOfBytes(fmt, d, off, w, k) ==
    IF k = w THEN 0
    ELSE ByteOfWeight(fmt, d, off, w, k) * 256 ^ k
             + SumOfBytes(fmt, d, off, w, k + 1)

\* the count n a list of count type ctype holds at offset off of d, which
\* has the bytes of the count: -1 when n is negative, Len(d) + 1 when
\* n >= 2^31 (more items than d has bytes)
CountAt(fmt, d, off, ctype) ==
    LET w == width_of(ctype)
        top == ByteOfWeight(fmt, d, off, w, w - 1)
    IN  IF top >= 128 /\ ctype \in SignedTypes THEN -1
        ELSE IF top >= 128 /\ w = 4 THEN Len(d) + 1
        ELSE SumOfBytes(fmt, d, off, w, 0)

\* The offset after property p, read at offset off of d: off plus the
\* width of p (scalar: its fixed width; list: count-type width + n *
\* item-type width).  -1 stands for a list with a negative count; an offset
\* beyond Len(d) means that d is too short for p.
AfterProperty(fmt, d, off, p) ==
    IF IsScalarProperty(p) THEN off + width_of(p.dtype[1])
    ELSE IF off + width_of(p.dtype[2]) > Len(d) THEN off + width_of(p.dtype[2])
    ELSE LET n == CountAt(fmt, d, off, p.dtype[2])
         IN  IF n < 0 THEN -1
             ELSE off + width_of(p.dtype[2]) + n * width_of(p.dtype[3])

\* the offset after the first k properties of props, read from off
RECURSIVE AfterProperties(_, _, _, _, _)
AfterProperties(fmt, d, off, props, k) ==
    IF k = 0 THEN off
    ELSE LET before == AfterProperties(fmt, d, off, props, k - 1)
         IN  IF before < 0 \/ before > Len(d) THEN before
             ELSE AfterProperty(fmt, d, before, props[k])

\* the offset after k records of element e, read from off
RECURSIVE AfterRecords(_, _, _, _, _)
AfterRecords(fmt, d, off, e, k) ==
    IF k = 0 THEN off
    ELSE LET before == AfterRecords(fmt, d, off, e, k - 1)
         IN  IF before < 0 \/ before > Len(d) THEN before
             ELSE AfterProperties(fmt, d, before, e.properties, Len(e.properties))

\* the offset after the first k elements of elems, read from 0
RECURSIVE AfterElements(_, _, _, _)
AfterElements(fmt, d, elems, k) ==
    IF k = 0 THEN 0
    ELSE LET before == AfterElements(fmt, d, elems, k - 1)
         IN  IF before < 0 \/ before > Len(d) THEN before
             ELSE AfterRecords(fmt, d, before, elems[k], elems[k].count)

\* the sum over all records of the property widths
Required(fmt, d, elems) == AfterElements(fmt, d, elems, Len(elems))

\* the payload encodes the schema's lists and is long enough
Sufficient(fmt, d, elems) ==
    Required(fmt, d, elems) >= 0 /\ Required(fmt, d, elems) <= Len(d)

Decoding == pc \in {"doc", "elem", "item"}

\* the last read_data call got as far as reading the payload
Decoded == it_doc # NoIterator

(***************************************************************************)
(* C1: for a well-formed binary document, read_data threads one offset     *)
(* through all reads.  While it decodes, the offset of the iterator over   *)
(* the elements is the sum of the widths of the elements read so far (so   *)
(* the first element starts at 0 and each element where the one before it  *)
(* ended), that of the iterator over the records adds the widths of the    *)
(* records read so far, that of the iterator over the properties adds the  *)
(* widths of the properties read so far, and none is beyond the payload;   *)
(* no step of the decode lowers the offset of the iterator over the        *)
(* elements; when read_data returns, the offset is the sum over all        *)
(* records of the property widths, which is the payload length when no     *)
(* bytes trail; and with a payload of sufficient length read_data returns. *)
(***************************************************************************)
C1_Offsets ==
    (Decoded /\ WellFormedBinary(file_format, elements)) =>
        /\ it_doc.offset =
              AfterElements(file_format, data, elements, Min(it_doc.next - 1, Len(elements)))
        /\ it_doc.offset <= Len(data)
        /\ pc \in {"elem", "item"} =>
              /\ it_elem.offset =
                    AfterRecords(file_format, data, it_doc.offset,
                                 elements[it_doc.next], Len(items))
              /\ it_doc.offset <= it_elem.offset /\ it_elem.offset <= Len(data)
        /\ pc = "item" =>
              /\ it_item.offset =
                    AfterProperties(file_format, data, it_elem.offset,
                                    elements[it_doc.next].properties, Len(item))
              /\ it_elem.offset <= it_item.offset /\ it_item.offset <= Len(data)

C1_Returns ==
    (Decoded /\ WellFormedBinary(file_format, elements) /\ pc = "ready") =>
        /\ outcome = "returned" <=> Sufficient(file_format, data, elements)
        /\ outcome = "returned" =>
              /\ it_doc.offset = Required(file_format, data, elements)
              /\ Required(file_format, data, elements) = Len(data)
                    => it_doc.offset = Len(data)

C1_Monotone == Decoding /\ Decoding' => it_doc'.offset >= it_doc.offset

C1_Theorem == [](C1_Offsets /\ C1_Returns) /\ [][C1_Monotone]_vars

\* read_data has returned a well-formed document of two elements, the
\* second one read from where the first one ended, past offset 0, with no
\* byte of the payload left
C1_Witness ==
    /\ pc = "ready" /\ outcome = "returned"
    /\ WellFormedBinary(file_format, elements)
    /\ Len(elements) = 2 /\ Len(result.values[1]) > 0 /\ Len(result.values[2]) > 0
    /\ it_elem.offset > 1
    /\ it_doc.offset = Len(data)

(***************************************************************************)
(* C2: decoding a well-formed binary schema against a payload that is one  *)
(* byte shorter than the schema requires (shorter than the minimum of the  *)
(* schema, all lists empty, or a payload that needs all of its bytes with  *)
(* its last byte cut) ends in an error: no offset is ever beyond the       *)
(* buffer, nothing is returned, and the read that fails (a list whose      *)
(* count exceeds what is left included) leaves no value and does not move  *)
(* the offset.                                                             *)
(***************************************************************************)

\* the least number of bytes a schema requires: every list empty
MinWidth(p) ==
    IF IsScalarProperty(p) THEN width_of(p.dtype[1]) ELSE width_of(p.dtype[2])

RECURSIVE SumWidths(_, _)
SumWidths(props, k) ==
    IF k = 0 THEN 0 ELSE SumWidths(props, k - 1) + MinWidth(props[k])

RECURSIVE MinRequiredOf(_, _)
MinRequiredOf(elems, k) ==
    IF k = 0 THEN 0
    ELSE MinRequiredOf(elems, k - 1)
            + elems[k].count * SumWidths(elems[k].properties, Len(elems[k].properties))

MinRequired(elems) == MinRequiredOf(elems, Len(elems))

\* d is one byte short: of the schema's minimum, or of a payload that the
\* schema reads to its last byte
OneByteShort(fmt, d, elems) ==
    \/ Len(d) + 1 = MinRequired(elems)
    \/ \E b \in 0..255 : Required(fmt, Append(d, b), elems) = Len(d) + 1

C2_Theorem ==
    (Decoded /\ WellFormedBinary(file_format, elements)) =>
        /\ it_doc.offset <= Len(data)
        /\ it_elem.offset <= Len(data)
        /\ it_item.offset <= Len(data)
        /\ outcome # "returned" => result = None
        /\ (pc = "ready" /\ outcome = "raised") =>
              /\ exc.type = "struct.error"
              /\ Len(item) = it_item.next - 1
              /\ Len(items) = readers[it_doc.next].n - it_elem.left
              /\ Len(doc) = it_doc.next - 1
        /\ (pc = "ready" /\ OneByteShort(file_format, data, elements)) =>
              outcome = "raised"

\* read_data has raised on the payload of scenario B with its last byte
\* cut: the count, 3, is read and exceeds what the buffer holds
C2_Witness ==
    /\ pc = "ready" /\ outcome = "raised" /\ Decoded
    /\ WellFormedBinary(file_format, elements)
    /\ OneByteShort(file_format, data, elements)
    /\ data = ChopLast(PayloadB)
    /\ elements[1].properties[1].dtype[1] = W_list
    /\ it_item.offset = 0 /\ item = << >>

(***************************************************************************)
(* The header as the specification describes it, over the lines read.      *)
(***************************************************************************)

\* the header's lines, read to the end_header line
HeaderRead ==
    \/ pc \in {"parse", "ready", "read", "doc", "elem", "item"}
    \/ /\ pc = "init_failed"
       /\ exc.type \notin {"IOError", "TypeError"}
       /\ exc.msg # "This is not a valid .ply file."

\* the (keyword, arguments) pairs of the lines that are not comments
SchemaLines == other_lines_of(all_lines)

\* the lines in an element position: after the format line, neither a
\* comment nor a property line
ElementPositions ==
    {i \in 2..Len(SchemaLines) : SchemaLines[i][1] # W_property}

\* the constructor has returned a reader
Constructed == pc \notin {"new", "magic", "lines", "parse", "init_failed"}

\* a call of read_data is over
CallOver == pc = "ready" /\ calls > 0

(***************************************************************************)
(* C3 (as claimed): for a header whose format line is "ascii 1.0" and that *)
(* declares at least one element, with any number of properties, the       *)
(* constructor succeeds and every call of read_data fails with the         *)
(* unsupported-mode error instead of returning a document.                 *)
(***************************************************************************)
AsciiWithElement ==
    /\ HeaderRead
    /\ Len(SchemaLines) >= 2
    /\ SchemaLines[1] = << W_format, << W_ascii, V10 >> >>
    /\ \A i \in 2..Len(SchemaLines) :
          \/ SchemaLines[i][1] = W_element /\ Len(SchemaLines[i][2]) = 2
                /\ IsIntLiteral(SchemaLines[i][2][2])
          \/ SchemaLines[i][1] = W_property /\ i > 2
                /\ (\/ Len(SchemaLines[i][2]) = 2
                       /\ SchemaLines[i][2][1] \in ScalarTypes
                    \/ Len(SchemaLines[i][2]) = 4
                       /\ SchemaLines[i][2][1] = W_list
                       /\ SchemaLines[i][2][2] \in IntegerTypes
                       /\ SchemaLines[i][2][3] \in ScalarTypes)

C3_Claim ==
    (AsciiWithElement /\ pc # "parse") =>
        /\ Constructed
        /\ ~Decoding
        /\ CallOver => outcome = "raised" /\ exc.type = "NotImplementedError"

(***************************************************************************)
(* C4 (as claimed): a line in an element position whose keyword is not     *)
(* "element" or that has not exactly two arguments raises a fatal parse    *)
(* error: no reader, and no element schema, comes of such a header.        *)
(***************************************************************************)
MalformedElementLine(line) == line[1] # W_element \/ Len(line[2]) # 2

C4_Claim ==
    (HeaderRead /\ pc # "parse"
        /\ \E i \in ElementPositions : MalformedElementLine(SchemaLines[i])) =>
        /\ pc = "init_failed"
        /\ elements = << >>

(***************************************************************************)
(* C5 (as claimed): header parsing fails whenever the first non-comment    *)
(* line is not a format line or its format name is not one of ascii,       *)
(* binary_little_endian, binary_big_endian: no reader with another format  *)
(* name is produced, whatever the header declares.                         *)
(***************************************************************************)
RecognisedFormatLine ==
    /\ SchemaLines # << >>
    /\ SchemaLines[1][1] = W_format
    /\ Len(SchemaLines[1][2]) >= 1
    /\ SchemaLines[1][2][1] \in FormatTags

C5_Claim ==
    /\ (HeaderRead /\ pc # "parse" /\ ~RecognisedFormatLine) => pc = "init_failed"
    /\ Constructed => file_format \in FormatTags

(***************************************************************************)
(* C6 (as claimed): in a binary document, a property whose scalar type     *)
(* name (the scalar type, the list count type or the list item type) is    *)
(* not one of the eight is rejected with an error that names the token: no *)
(* decoder is built and no value is decoded.  The names "little" and "big" *)
(* are such names.                                                         *)
(***************************************************************************)
TypeTokens(p) ==
    IF Len(p.dtype) >= 3 /\ p.dtype[1] = W_list THEN {p.dtype[2], p.dtype[3]}
    ELSE IF Len(p.dtype) >= 1 THEN {p.dtype[1]}
    ELSE {}

ElementTypeTokens(e) ==
    UNION {TypeTokens(e.properties[j]) : j \in 1..Len(e.properties)}

UnknownTypeTokens ==
    {t \in UNION {ElementTypeTokens(elements[i]) : i \in 1..Len(elements)} :
        t \notin ScalarTypes}

C6_Claim ==
    (Constructed /\ UnknownTypeTokens # {}
        /\ file_format \in {W_binary_little_endian, W_binary_big_endian}) =>
        /\ readers = << >>
        /\ ~Decoding
        /\ item = << >> /\ items = << >> /\ doc = << >>
        /\ CallOver => outcome = "raised" /\ exc.key \in UnknownTypeTokens

(***************************************************************************)
(* C7 (as claimed): the handle the reader opens for a path is closed on    *)
(* every exit path (when the constructor fails, when read_data returns,    *)
(* when read_data raises); a handle the caller passes is never closed.     *)
(***************************************************************************)
C7_Claim ==
    /\ (owner = "reader" /\ (pc = "init_failed" \/ CallOver)) => handle = "closed"
    /\ owner = "caller" => handle = "open"

(***************************************************************************)
(* The magic line as the specification describes it.                       *)
(***************************************************************************)

\* the first line of the input, as the file holds it
FirstLine == readline(text, 0)

\* a line without its line terminator
StripNL(l) == IF l # << >> /\ l[Len(l)] = "\n" THEN ChopLast(l) ELSE l

\* read_header has tested the first line
MagicChecked ==
    /\ pc \notin {"new", "magic"}
    /\ pc = "init_failed" => exc.type \notin {"IOError", "TypeError"}

\* read_header raised on the first line, nothing else read or parsed
MagicFailed ==
    /\ pc = "init_failed"
    /\ exc = Exc("RuntimeError", "This is not a valid .ply file.")
    /\ pos = Len(FirstLine)
    /\ all_lines = << >> /\ eof_reads = 0
    /\ file_format = << >> /\ elements = << >>

\* the magic check passed: the header lines are being read, or were read
MagicPassed ==
    \/ pc \in {"lines", "parse", "ready", "read", "doc", "elem", "item"}
    \/ pc = "init_failed" /\ exc.msg # "This is not a valid .ply file."

(***************************************************************************)
(* C8 (as claimed): if the first line, its line terminator stripped, is    *)
(* not exactly "ply", header parsing raises before any other line is read  *)
(* or parsed; if it is exactly "ply", the magic check passes.              *)
(***************************************************************************)
C8_Claim ==
    MagicChecked =>
        IF StripNL(FirstLine) = W_ply THEN MagicPassed ELSE MagicFailed

(***************************************************************************)
(* C8 (amended): the magic check passes exactly when the first line is     *)
(* "ply" followed by a newline.  Any other first line ("PLY", "ply" with a *)
(* carriage return before the newline, and also "ply" at the end of the    *)
(* input with no newline after it) raises the error of the magic check     *)
(* when only that line has been read: no header line is read, no format    *)
(* and no element is parsed.                                               *)
(***************************************************************************)
C8_Theorem ==
    MagicChecked =>
        /\ FirstLine = W_ply \o <<"\n">> => MagicPassed /\ ~MagicFailed
        /\ FirstLine # W_ply \o <<"\n">> => MagicFailed /\ ~MagicPassed

\* the constructor has raised on the first line "PLY" of scenario C, with
\* the rest of the header unread
C8_Witness ==
    /\ MagicFailed
    /\ FirstLine = W_PLY \o <<"\n">>
    /\ pos = 4 /\ pos < Len(text)

(***************************************************************************)
(* The values the specification asks of the decoders, computed from the    *)
(* payload bytes by weight.                                                *)
(***************************************************************************)

\* the bytes of the w-byte value at offset off of d, most significant first
BytesMSB(fmt, d, off, w) == [i \in 1..w |-> ByteOfWeight(fmt, d, off, w, w - i)]

\* the sum of the bytes of weight below 256^k
RECURSIVE SumBelow(_, _, _, _, _)
SumBelow(fmt, d, off, w, k) ==
    IF k = 0 THEN 0
    ELSE ByteOfWeight(fmt, d, off, w, k - 1) * 256 ^ (k - 1)
             + SumBelow(fmt, d, off, w, k - 1)

\* the value of a scalar of the given type at offset off of d: two's
\* complement for the signed types
ValueAt(fmt, d, off, type) ==
    LET w == width_of(type)
        top == ByteOfWeight(fmt, d, off, w, w - 1)
    IN  IF type \in {W_float, W_double} THEN PyFloat(BytesMSB(fmt, d, off, w))
        ELSE IF top < 128 THEN PyInt(SumBelow(fmt, d, off, w, w))
        ELSE IF type \in SignedTypes
        THEN PyInt((top - 256) * 256 ^ (w - 1) + SumBelow(fmt, d, off, w, w - 1))
        ELSE IF w = 4 THEN PyLong(BytesMSB(fmt, d, off, w))
        ELSE PyInt(SumBelow(fmt, d, off, w, w))

\* d holds, at offset off, the count of the list p and as many items
ListFits(fmt, d, off, p) ==
    /\ off + width_of(p.dtype[2]) <= Len(d)
    /\ CountAt(fmt, d, off, p.dtype[2]) >= 0
    /\ off + width_of(p.dtype[2])
          + CountAt(fmt, d, off, p.dtype[2]) * width_of(p.dtype[3]) <= Len(d)

\* the items of the list p at offset off of d, in stream order
ListAt(fmt, d, off, p) ==
    [k \in 1..CountAt(fmt, d, off, p.dtype[2]) |->
        ValueAt(fmt, d, off + width_of(p.dtype[2]) + (k - 1) * width_of(p.dtype[3]),
                p.dtype[3])]

\* the value of property p at offset off of d
PropertyAt(fmt, d, off, p) ==
    IF IsScalarProperty(p) THEN ValueAt(fmt, d, off, p.dtype[1])
    ELSE ListAt(fmt, d, off, p)

\* the property that read_item reads next
NextProperty == elements[it_doc.next].properties[it_item.next]

\* read_item is about to apply the decoder of a list property
ListRead ==
    /\ pc = "item"
    /\ WellFormedBinary(file_format, elements)
    /\ it_item.next <= Len(elements[it_doc.next].properties)
    /\ IsListProperty(NextProperty)

(***************************************************************************)
(* C9: in a well-formed binary document, the decoder of a list property    *)
(* applied at offset o reads the count n with the count type and then      *)
(* exactly n values of the item type from o + width(count type) on: when   *)
(* the payload holds them, the step yields these n values in stream order  *)
(* and moves the offset to o + width(count type) + n * width(item type)    *)
(* (for n = 0: the empty sequence, and the offset moves by the width of    *)
(* the count type only); when it does not, the step raises, yields nothing *)
(* and leaves the offset.                                                  *)
(***************************************************************************)
C9_Step ==
    ListRead =>
        LET p == NextProperty
            o == it_item.offset
            cw == width_of(p.dtype[2])
            iw == width_of(p.dtype[3])
        IN  IF ListFits(file_format, data, o, p)
            THEN LET n == CountAt(file_format, data, o, p.dtype[2])
                 IN  /\ pc' = "item"
                     /\ item' = Append(item, ListAt(file_format, data, o, p))
                     /\ Len(item'[Len(item')]) = n
                     /\ it_item'.offset = o + cw + n * iw
                     /\ it_item'.next = it_item.next + 1
                     /\ n = 0 => /\ item'[Len(item')] = << >>
                                 /\ it_item'.offset = o + cw
            ELSE /\ pc' = "ready" /\ outcome' = "raised"
                 /\ exc'.type = "struct.error"
                 /\ item' = item /\ it_item' = it_item

C9_Theorem == [][C9_Step]_vars

\* the list decoder has read, in the second record of an element, a list
\* of two signed bytes (0 and -1) at offset 1, after the empty list of the
\* first record, and has moved the offset to 4
C9_Witness ==
    /\ pc = "item" /\ WellFormedBinary(file_format, elements)
    /\ Len(elements[it_doc.next].properties) = 1
    /\ IsListProperty(elements[it_doc.next].properties[1])
    /\ Len(items) = 1 /\ items[1].values = << << >> >>
    /\ it_elem.offset = 1
    /\ item = << << PyInt(0), PyInt(-1) >> >>
    /\ it_item.offset = 4

(***************************************************************************)
(* C10: the element decoder applies the record decoder declared_count      *)
(* times, each record applying every property decoder once, in declared    *)
(* order, from the first property on.  While an element is read, the       *)
(* records read and the repeats left add up to the declared count; every   *)
(* record read holds, under the declared property names, the value of each *)
(* property at the offset where the property before it ended; an element   *)
(* that was read has exactly declared_count records.  With a declared      *)
(* count of 0 no record is read: the element is the empty sequence and the *)
(* offset is the one the element decoder was called with.                  *)
(***************************************************************************)

\* the values of the first k properties props of a record at offset off
RecordAt(fmt, d, off, props, k) ==
    [j \in 1..k |->
        PropertyAt(fmt, d, AfterProperties(fmt, d, off, props, j - 1), props[j])]

\* the names of the properties props, in declared order
NamesOf(props) == [j \in 1..Len(props) |-> props[j].name]

\* the first k records of element e at offset off, as named tuples
RecordsAt(fmt, d, off, e, k) ==
    [r \in 1..k |->
        new_tuple(NamesOf(e.properties),
                  RecordAt(fmt, d, AfterRecords(fmt, d, off, e, r - 1),
                           e.properties, Len(e.properties)))]

C10_Records ==
    (Decoded /\ WellFormedBinary(file_format, elements)) =>
        /\ \A j \in 1..Len(doc) :
              /\ Len(doc[j]) = elements[j].count
              /\ doc[j] = RecordsAt(file_format, data,
                                    AfterElements(file_format, data, elements, j - 1),
                                    elements[j], elements[j].count)
        /\ pc \in {"elem", "item"} =>
              /\ it_elem.left >= 0
              /\ Len(items) + it_elem.left = elements[it_doc.next].count
              /\ items = RecordsAt(file_format, data, it_doc.offset,
                                   elements[it_doc.next], Len(items))
        /\ pc = "item" =>
              /\ elements[it_doc.next].count > 0
              /\ it_elem.left > 0
              /\ it_item.next = Len(item) + 1
              /\ Len(item) <= Len(elements[it_doc.next].properties)
              /\ item = RecordAt(file_format, data, it_elem.offset,
                                 elements[it_doc.next].properties, Len(item))
        /\ (pc = "ready" /\ outcome = "returned") =>
              /\ Len(result.values) = Len(elements)
              /\ result.values = doc

\* the element decoder, called for an element whose declared count is 0
EmptyElementRead ==
    /\ pc = "elem" /\ WellFormedBinary(file_format, elements)
    /\ elements[it_doc.next].count = 0

C10_Empty ==
    EmptyElementRead =>
        /\ items = << >> /\ it_elem.offset = it_doc.offset
        /\ pc' = "doc"
        /\ doc' = Append(doc, << >>)
        /\ it_doc'.offset = it_doc.offset
        /\ it_doc'.next = it_doc.next + 1

C10_Theorem == []C10_Records /\ [][C10_Empty]_vars

\* read_data has returned the two records of an element of two properties,
\* each record with both values, read from a payload of four bytes: the
\* second record starts again at the first property
C10_Witness ==
    /\ pc = "ready" /\ outcome = "returned"
    /\ WellFormedBinary(file_format, elements)
    /\ Len(elements) = 1 /\ elements[1].count = 2
    /\ Len(elements[1].properties) = 2
    /\ data = << 2, 255, 0, 2 >>
    /\ result.values[1] =
          << new_tuple(<< <<"x">>, <<"y">> >>, << PyInt(2), PyInt(-1) >>),
             new_tuple(<< <<"x">>, <<"y">> >>, << PyInt(0), PyInt(2) >>) >>
    /\ it_doc.offset = 4

(***************************************************************************)
(* The schema as the specification describes it: every line is split on    *)
(* its whitespace runs, the first token is the keyword, lines of keyword   *)
(* "comment" are skipped, the first line left is the format line, and each *)
(* element line opens an element that the property lines after it fill.    *)
(***************************************************************************)

\* the tokens of the lines that are not comments
RECURSIVE SpecLinesOf(_)
SpecLinesOf(lines) ==
    IF lines = << >> THEN << >>
    ELSE LET t == split(Head(lines))
         IN  IF t # << >> /\ t[1] = W_comment THEN SpecLinesOf(Tail(lines))
             ELSE << t >> \o SpecLinesOf(Tail(lines))

SpecLines == SpecLinesOf(all_lines)

IsFormatLine(t) ==
    /\ Len(t) = 3 /\ t[1] = W_format
    /\ t[2] \in FormatTags /\ IsFloatLiteral(t[3])

IsElementLine(t) ==
    /\ Len(t) = 3 /\ t[1] = W_element
    /\ t[3] # << >> /\ AllIn(t[3], Digits)

IsPropertyLine(t) ==
    /\ Len(t) >= 1 /\ t[1] = W_property
    /\ \/ Len(t) = 3 /\ t[2] \in ScalarTypes
       \/ /\ Len(t) = 5 /\ t[2] = W_list
          /\ t[3] \in IntegerTypes /\ t[4] \in ScalarTypes

\* the header read is well-formed: a format line, then elements, each an
\* element line and the property lines that follow it
WellFormedHeader ==
    /\ HeaderRead
    /\ Len(SpecLines) >= 1
    /\ IsFormatLine(SpecLines[1])
    /\ Len(SpecLines) >= 2 => IsElementLine(SpecLines[2])
    /\ \A i \in 2..Len(SpecLines) :
          IsElementLine(SpecLines[i]) \/ IsPropertyLine(SpecLines[i])

\* the number a string of decimal digits denotes
RECURSIVE DecimalOf(_)
DecimalOf(s) ==
    IF s = << >> THEN 0
    ELSE 10 * DecimalOf(ChopLast(s)) + DigitValue(s[Len(s)])

\* the schema of element and property lines, line by line: an element line
\* adds an element without properties, a property line adds a property to
\* the last element
RECURSIVE SchemaOf(_)
SchemaOf(lines) ==
    IF lines = << >> THEN << >>
    ELSE LET t == lines[Len(lines)]
             before == SchemaOf(ChopLast(lines))
         IN  IF t[1] = W_element
             THEN Append(before, PlyElement(t[2], DecimalOf(t[3]), << >>))
             ELSE [before EXCEPT ![Len(before)].properties =
                      Append(@, PlyProperty(t[Len(t)], SubSeq(t, 2, Len(t) - 1)))]

\* the header holds a comment line
HasComment == Len(SpecLines) < Len(all_lines)

(***************************************************************************)
(* C11 (as claimed): for every well-formed header the constructor returns  *)
(* a reader whose elements are, in declaration order, one element per      *)
(* element line, each with exactly the properties of the property lines    *)
(* that follow it, in declaration order; comment lines, wherever they are, *)
(* change neither the elements nor their properties.                       *)
(***************************************************************************)
C11_Claim ==
    (WellFormedHeader /\ pc # "parse") =>
        /\ Constructed
        /\ elements = SchemaOf(Tail(SpecLines))

\* every line has its keyword at its start, followed by one blank or by
\* nothing
BlankAfterKeyword(l) ==
    LET t == split(l)
    IN  /\ t # << >>
        /\ SubSeq(l, 1, Len(t[1])) = t[1]
        /\ Len(l) > Len(t[1]) => l[Len(t[1]) + 1] = " "

\* C11 for the headers whose keywords are followed by a blank: the claim
\* holds of them
C11_BlankSeparated ==
    (WellFormedHeader /\ pc # "parse"
        /\ \A i \in 1..Len(all_lines) : BlankAfterKeyword(all_lines[i])) =>
        /\ Constructed
        /\ elements = SchemaOf(Tail(SpecLines))

\* a well-formed header with comments between its lines has been parsed
\* to two elements, the first with a scalar and a list property
C11_BlankSeparated_Witness ==
    /\ WellFormedHeader /\ Constructed /\ HasComment
    /\ \A i \in 1..Len(all_lines) : BlankAfterKeyword(all_lines[i])
    /\ Len(elements) = 2 /\ Len(elements[1].properties) = 2
    /\ Len(all_lines) - Len(SpecLines) = 4

(***************************************************************************)
(* The header lines as the specification describes them: the lines of the  *)
(* input after the magic line, each without its line terminator, up to the *)
(* first line that is "end_header".                                        *)
(***************************************************************************)

\* the lines of t between the positions p and q, as the file holds them
RECURSIVE LinesBetween(_, _, _)
LinesBetween(t, p, q) ==
    IF p >= q THEN << >>
    ELSE << readline(t, p) >> \o LinesBetween(t, p + Len(readline(t, p)), q)

\* the lines read after the magic line
HeaderLinesRead == LinesBetween(text, Len(FirstLine), pos)

\* the lines of the input after the magic line
HeaderLinesOfInput == LinesBetween(text, Len(FirstLine), Len(text))

\* an end_header line, terminated as the lines of the header are
IsEndHeaderLine(l) == l = W_end_header \o <<"\n">>

NoEndHeaderIn(ls) == \A i \in 1..Len(ls) : ~IsEndHeaderLine(ls[i])

\* ls ends with its first end_header line, and kept are the lines before it
StoppedAtEndHeader(ls, kept) ==
    /\ Len(ls) >= 1
    /\ IsEndHeaderLine(ls[Len(ls)])
    /\ NoEndHeaderIn(ChopLast(ls))
    /\ kept = [i \in 1..(Len(ls) - 1) |-> StripNL(ls[i])]

\* the reading of header lines is going on
ReadingLines == pc = "lines"

\* the reading of header lines is over
LinesOver == HeaderRead

(***************************************************************************)
(* C12 (as claimed): for an input whose first line is the magic line,      *)
(* reading header lines stops at the end_header line and stops when the    *)
(* input ends.  While lines are read, no line read so far is the           *)
(* end_header line and no read has met the end of the input; when the      *)
(* reading is over, either the last line read is the first end_header line *)
(* of the input, consumed, with the lines before it kept as the header     *)
(* lines, or the input has no end_header line and was read to its end.     *)
(***************************************************************************)
C12_Claim ==
    LET ls == HeaderLinesRead
    IN  /\ ReadingLines => eof_reads = 0 /\ NoEndHeaderIn(ls)
        /\ LinesOver =>
              \/ StoppedAtEndHeader(ls, all_lines)
              \/ NoEndHeaderIn(HeaderLinesOfInput) /\ pos = Len(text)

\* C12 for the inputs that hold an end_header line: the reading stops at
\* the first such line, which is consumed, so that what follows the
\* header starts right after it, and the lines before it are the header
\* lines; no read meets the end of the input
C12_WithEndHeader ==
    LET ls == HeaderLinesRead
    IN  (MagicPassed /\ ~NoEndHeaderIn(HeaderLinesOfInput)) =>
            /\ eof_reads = 0
            /\ ReadingLines => NoEndHeaderIn(ls)
            /\ LinesOver => StoppedAtEndHeader(ls, all_lines)

\* the header lines of scenario A have been read to the end_header line
C12_WithEndHeader_Witness ==
    /\ pc = "parse" /\ text = F_ScenarioA
    /\ pos = Len(text) /\ Len(all_lines) = 5

====
